---- MODULE Spec2Model ----
(***************************************************************************)
(* GPX_GeoCoding (main.py): a GPX track is loaded, its points are          *)
(* flattened and sorted by time, sampled at a time interval, each sampled  *)
(* point is reverse-geocoded, the distinct addresses are collected and     *)
(* written as JSON.                                                        *)
(*                                                                         *)
(* A datetime is a record [day, sec, usec] (calendar day, second of the    *)
(* day, microsecond), a timedelta the normalised record Python keeps:      *)
(* [days, seconds, microseconds] with 0 <= seconds < 86400 and             *)
(* 0 <= microseconds < 10^6.  A track point is [id, time]; id stands for   *)
(* the identity of the Python object and is the point's position in the    *)
(* traversal of the track structure.                                       *)
(***************************************************************************)
EXTENDS Integers, Sequences, FiniteSets, TLC

VARIABLES
    pc,                         \* position of main()
    log,                        \* the messages logged so far
    gpx_file,                   \* the input file as the file system holds it
    gpx_data,                   \* main: gpx_data
    total_points,               \* main: total_points
    interval,                   \* main: point_interval_minutes
    processing_points,          \* main: processing_points
    idx,                        \* reverseGeocode: position of the for loop
    calls,                      \* the lookups issued to the geocoding client, with their outcomes
    parsed_points,              \* reverseGeocode: parsed_points
    seen_addresses,             \* reverseGeocode: seen_addresses
    reversed_geocode_results,   \* main: reversed_geocode_results
    out_file                    \* the output file as the file system holds it

vars == <<pc, log, gpx_file, gpx_data, total_points, interval, processing_points,
          idx, calls, parsed_points, seen_addresses, reversed_geocode_results, out_file>>

----------------------------------------------------------------------------
(* Bounds of the model *)

MaxTracks == 2
MaxSegs == 2
MaxSegLen == 2
MaxPoints == 3
MaxDay == 1
MaxLen == 3
MaxInterval == 5
MaxSample == 3
MaxCand == 2

(* Python's datetime arithmetic *)

SEC_PER_DAY == 86400
USEC_PER_SEC == 1000000

point_interval_minutes == 5

----------------------------------------------------------------------------
(* Sequences *)

SeqsUpTo(n, S) == UNION {[1..k -> S] : k \in 0..n}

Last(s) == s[Len(s)]

Front(s) == SubSeq(s, 1, Len(s) - 1)

RECURSIVE SumSeq(_)
SumSeq(s) == IF s = <<>> THEN 0 ELSE s[1] + SumSeq(Tail(s))

RECURSIVE Concat(_)
Concat(ss) == IF ss = <<>> THEN <<>> ELSE ss[1] \o Concat(Tail(ss))

----------------------------------------------------------------------------
(* datetime and timedelta *)

T(d, s, u) == [day |-> d, sec |-> s, usec |-> u]

\* point.time of a point the file gives no time: None
NoTime == [day |-> -1, sec |-> 0, usec |-> 0]

\* datetime.__lt__
TimeLess(a, b) ==
    \/ a.day < b.day
    \/ a.day = b.day /\ a.sec < b.sec
    \/ a.day = b.day /\ a.sec = b.sec /\ a.usec < b.usec

\* datetime.__sub__: the normalised timedelta a - b
TimeSub(a, b) ==
    LET us == a.usec - b.usec
        bs == IF us < 0 THEN 1 ELSE 0
        s  == a.sec - b.sec - bs
        bd == IF s < 0 THEN 1 ELSE 0
    IN  [days |-> a.day - b.day - bd,
         seconds |-> s + bd * SEC_PER_DAY,
         microseconds |-> us + bs * USEC_PER_SEC]

\* (a - b).seconds: the seconds field of the timedelta, not its total
DiffSeconds(a, b) == TimeSub(a, b).seconds

Point(i, t) == [id |-> i, time |-> t]

----------------------------------------------------------------------------
(* extract_points *)

\* sorted() places an element before its equals
InsertBeforeEqual(s, p) ==
    LET k == Cardinality({i \in 1..Len(s) : TimeLess(s[i].time, p.time)})
    IN  SubSeq(s, 1, k) \o <<p>> \o SubSeq(s, k + 1, Len(s))

\* one insertion of the stable sort: p goes after every element not later than it
InsertStable(s, p) ==
    LET k == Cardinality({i \in 1..Len(s) : ~TimeLess(p.time, s[i].time)})
    IN  SubSeq(s, 1, k) \o <<p>> \o SubSeq(s, k + 1, Len(s))

\* sorted(total_points, key=lambda x: x.time)
RECURSIVE SortedByTime(_)
SortedByTime(s) ==
    IF s = <<>> THEN <<>> ELSE InsertStable(SortedByTime(Front(s)), Last(s))

\* for track in gpx_data.tracks: for segment in track.segments: extend(segment.points)
FlattenTracks(gpx) == Concat([t \in 1..Len(gpx) |-> Concat(gpx[t])])

\* comparing None with a datetime (or with None) raises TypeError; a sort of
\* two or more elements compares every element at least once
SortRaises(s) == Len(s) >= 2 /\ \E i \in 1..Len(s) : s[i].time = NoTime

extract_points(gpx) ==
    LET flat == FlattenTracks(gpx)
    IN  IF SortRaises(flat)
        THEN [raised |-> TRUE, value |-> <<>>]
        ELSE [raised |-> FALSE, value |-> SortedByTime(flat)]

----------------------------------------------------------------------------
(* select_points *)

\* interval_minutes * 60
Threshold(interval_minutes) == interval_minutes * 60

\* the loop body without the reset of time_sec_passed
ScanStepNoReset(st, prev, cur, interval_minutes) ==
    LET passed == st.time_sec_passed + DiffSeconds(cur.time, prev.time)
    IN  IF passed >= Threshold(interval_minutes)
        THEN [time_sec_passed |-> passed,
              processing_points |-> Append(st.processing_points, cur)]
        ELSE [time_sec_passed |-> passed, processing_points |-> st.processing_points]

\* one iteration of the for loop, lines 83-87
ScanStep(st, prev, cur, interval_minutes) ==
    LET passed == st.time_sec_passed + DiffSeconds(cur.time, prev.time)
    IN  IF passed >= Threshold(interval_minutes)
        THEN [time_sec_passed |-> 0,
              processing_points |-> Append(st.processing_points, cur)]
        ELSE [time_sec_passed |-> passed, processing_points |-> st.processing_points]

\* the loop started from processing_points = []
RECURSIVE ScanStateNoFirst(_, _, _)
ScanStateNoFirst(points, interval_minutes, i) ==
    IF i = 1
    THEN [time_sec_passed |-> 0, processing_points |-> <<>>]
    ELSE ScanStep(ScanStateNoFirst(points, interval_minutes, i - 1),
                  points[i - 1], points[i], interval_minutes)

\* the loop variables after the iterations 1 .. i-1 of range(1, len(points))
\* (i = 1: before the loop), for a non-empty points
RECURSIVE ScanState(_, _, _)
ScanState(points, interval_minutes, i) ==
    IF i = 1
    THEN [time_sec_passed |-> 0, processing_points |-> <<points[1]>>]
    ELSE ScanStep(ScanState(points, interval_minutes, i - 1),
                  points[i - 1], points[i], interval_minutes)

\* the final check measured from the first retained point
FinalCheckFromFirst(points, scanned, interval_minutes) ==
    /\ Len(scanned) > 0
    /\ DiffSeconds(Last(points).time, scanned[1].time) >= Threshold(interval_minutes)

\* line 90
FinalCheck(points, scanned, interval_minutes) ==
    /\ Len(scanned) > 0
    /\ DiffSeconds(Last(points).time, Last(scanned).time) >= Threshold(interval_minutes)

\* None - datetime, datetime - None and None - None raise TypeError; line 90
\* subtracts for every non-empty points
SelectRaises(points) == \E i \in 1..Len(points) : points[i].time = NoTime

select_points(points, interval_minutes) ==
    IF points = <<>>
    THEN [raised |-> FALSE, warned |-> TRUE, value |-> <<>>]
    ELSE IF SelectRaises(points)
    THEN [raised |-> TRUE, warned |-> FALSE, value |-> <<>>]
    ELSE LET scanned == ScanState(points, interval_minutes, Len(points)).processing_points
         IN  [raised |-> FALSE, warned |-> FALSE,
              value |-> IF FinalCheck(points, scanned, interval_minutes)
                        THEN Append(scanned, Last(points))
                        ELSE scanned]

----------------------------------------------------------------------------
(* reverseGeocode *)

Component(ts, name) == [types |-> ts, long_name |-> name]

Candidate(cs) == [address_components |-> cs]

\* lines 115-121
EmptyAddr ==
    [country |-> "", administrative_area_level_1 |-> "",
     administrative_area_level_2 |-> "", locality |-> "", sublocality |-> ""]

\* the if/elif chain of lines 123-132 for one component
ApplyComponent(addr, c) ==
    IF "country" \in c.types
    THEN [addr EXCEPT !.country = c.long_name]
    ELSE IF "administrative_area_level_1" \in c.types
    THEN [addr EXCEPT !.administrative_area_level_1 = c.long_name]
    ELSE IF "administrative_area_level_2" \in c.types
    THEN [addr EXCEPT !.administrative_area_level_2 = c.long_name]
    ELSE IF "locality" \in c.types
    THEN [addr EXCEPT !.locality = c.long_name]
    ELSE IF "sublocality" \in c.types
    THEN [addr EXCEPT !.sublocality = c.long_name]
    ELSE addr

\* for component in ...['address_components'], from newParsedAddr = addr
RECURSIVE ParseComponents(_, _)
ParseComponents(addr, cs) ==
    IF cs = <<>> THEN addr
    ELSE ParseComponents(ApplyComponent(addr, cs[1]), Tail(cs))

\* lines 135-141
AddressTuple(a) ==
    <<a.country, a.administrative_area_level_1, a.administrative_area_level_2,
      a.locality, a.sublocality>>

\* the candidate taken is the last one
LastCandidate(geocode_result) == geocode_result[Len(geocode_result)]

\* geocode_result[0]
FirstCandidate(geocode_result) == geocode_result[1]

\* the body of the loop with the failed lookup skipped instead of propagated
GeocodeIterSwallows(pp, seen, resp) ==
    IF resp.status = "error" \/ resp.results = <<>>
    THEN [raised |-> FALSE, parsed_points |-> pp, seen_addresses |-> seen,
          logs |-> <<"geocode_no_result">>]
    ELSE LET newParsedAddr ==
                 ParseComponents(EmptyAddr, FirstCandidate(resp.results).address_components)
             address_tuple == AddressTuple(newParsedAddr)
         IN  [raised |-> FALSE,
              parsed_points |-> IF address_tuple \notin seen
                                THEN Append(pp, newParsedAddr) ELSE pp,
              seen_addresses |-> seen \cup {address_tuple},
              logs |-> <<>>]

\* the body of the loop without seen_addresses.add
GeocodeIterNoSeen(pp, seen, resp) ==
    IF resp.status = "error"
    THEN [raised |-> TRUE, parsed_points |-> pp, seen_addresses |-> seen,
          logs |-> <<"geocode_error">>]
    ELSE IF resp.results = <<>>
    THEN [raised |-> FALSE, parsed_points |-> pp, seen_addresses |-> seen,
          logs |-> <<"geocode_no_result">>]
    ELSE LET newParsedAddr ==
                 ParseComponents(EmptyAddr, FirstCandidate(resp.results).address_components)
             address_tuple == AddressTuple(newParsedAddr)
         IN  [raised |-> FALSE,
              parsed_points |-> IF address_tuple \notin seen
                                THEN Append(pp, newParsedAddr) ELSE pp,
              seen_addresses |-> seen,
              logs |-> <<>>]

\* one iteration of the loop of reverseGeocode, lines 111-148, on the outcome
\* resp of gmaps.reverse_geocode; a raised lookup is logged and re-raised
\* (lines 150-152)
GeocodeIter(pp, seen, resp) ==
    IF resp.status = "error"
    THEN [raised |-> TRUE, parsed_points |-> pp, seen_addresses |-> seen,
          logs |-> <<"geocode_error">>]
    ELSE IF resp.results = <<>>
    THEN [raised |-> FALSE, parsed_points |-> pp, seen_addresses |-> seen,
          logs |-> <<"geocode_no_result">>]
    ELSE LET newParsedAddr ==
                 ParseComponents(EmptyAddr, FirstCandidate(resp.results).address_components)
             address_tuple == AddressTuple(newParsedAddr)
         IN  [raised |-> FALSE,
              parsed_points |-> IF address_tuple \notin seen
                                THEN Append(pp, newParsedAddr) ELSE pp,
              seen_addresses |-> seen \cup {address_tuple},
              logs |-> <<>>]

\* return parsed_points, len(parsed_points) == 0
GeocodeReturnValue(pp) == <<pp, Len(pp) = 0>>

----------------------------------------------------------------------------
(* Python values and JSON text *)

PyStr(s) == [kind |-> "str", s |-> s]
PyBool(b) == [kind |-> "bool", b |-> b]
PyList(xs) == [kind |-> "list", elems |-> xs]
PyTuple(xs) == [kind |-> "tuple", elems |-> xs]
PyDict(items) == [kind |-> "dict", items |-> items]

\* the dict newParsedAddr, keys in insertion order
AddrToPy(a) ==
    PyDict(<< <<"country", PyStr(a.country)>>,
              <<"administrative_area_level_1", PyStr(a.administrative_area_level_1)>>,
              <<"administrative_area_level_2", PyStr(a.administrative_area_level_2)>>,
              <<"locality", PyStr(a.locality)>>,
              <<"sublocality", PyStr(a.sublocality)>> >>)

AddrListToPy(pp) == PyList([i \in 1..Len(pp) |-> AddrToPy(pp[i])])

\* the value reverseGeocode returns, as a Python value
ResultToPy(r) == PyTuple(<<AddrListToPy(r[1]), PyBool(r[2])>>)

\* json.dumps: lists and tuples become arrays, dicts objects
RECURSIVE json_dumps(_)
json_dumps(v) ==
    CASE v.kind \in {"list", "tuple"} ->
            [kind |-> "array", elems |-> [i \in 1..Len(v.elems) |-> json_dumps(v.elems[i])]]
      [] v.kind = "dict" ->
            [kind |-> "object",
             members |-> [i \in 1..Len(v.items) |->
                             <<v.items[i][1], json_dumps(v.items[i][2])>>]]
      [] v.kind = "str" -> [kind |-> "string", s |-> v.s]
      [] v.kind = "bool" -> [kind |-> IF v.b THEN "true" ELSE "false"]

\* json.loads: arrays become lists, objects dicts
RECURSIVE json_loads(_)
json_loads(j) ==
    CASE j.kind = "array" ->
            PyList([i \in 1..Len(j.elems) |-> json_loads(j.elems[i])])
      [] j.kind = "object" ->
            PyDict([i \in 1..Len(j.members) |->
                       <<j.members[i][1], json_loads(j.members[i][2])>>])
      [] j.kind = "string" -> PyStr(j.s)
      [] j.kind = "true" -> PyBool(TRUE)
      [] j.kind = "false" -> PyBool(FALSE)

NoText == [kind |-> "none"]

----------------------------------------------------------------------------
(* load_gpx_file, save_reversed_geocode_results_json *)

load_gpx_file(file) ==
    CASE file.status = "ok" -> [raised |-> FALSE, logs |-> <<>>, value |-> file.tracks]
      [] file.status = "missing" ->
            [raised |-> TRUE, logs |-> <<"load_not_found">>, value |-> <<>>]
      [] file.status = "denied" ->
            [raised |-> TRUE, logs |-> <<"load_no_permission">>, value |-> <<>>]
      [] file.status = "corrupt" ->
            [raised |-> TRUE, logs |-> <<"load_failed">>, value |-> <<>>]

\* the save with the error re-raised after logging
SaveReraises(value, outcome, file) ==
    CASE outcome = "ok" ->
            [raised |-> FALSE, logs |-> <<"save_ok">>,
             file |-> [state |-> "written", text |-> json_dumps(value)]]
      [] outcome = "write_fails" ->
            [raised |-> TRUE, logs |-> <<"save_error">>,
             file |-> [state |-> "truncated", text |-> NoText]]
      [] outcome = "open_fails" ->
            [raised |-> TRUE, logs |-> <<"save_error">>, file |-> file]

\* lines 156-163; outcome is what the file system does: open(..., 'w')
\* truncates the file, f.write may fail after it
save_reversed_geocode_results_json(value, outcome, file) ==
    CASE outcome = "ok" ->
            [raised |-> FALSE, logs |-> <<"save_ok">>,
             file |-> [state |-> "written", text |-> json_dumps(value)]]
      [] outcome = "write_fails" ->
            [raised |-> FALSE, logs |-> <<"save_error">>,
             file |-> [state |-> "truncated", text |-> NoText]]
      [] outcome = "open_fails" ->
            [raised |-> FALSE, logs |-> <<"save_error">>, file |-> file]

SaveOutcomes == {"ok", "write_fails", "open_fails"}

----------------------------------------------------------------------------
(* The inputs *)

\* a shape gives, per track, the number of points of each segment
Total(shape) == SumSeq(Concat(shape))

\* the number of points before segment s of track t, in traversal order
Offset(shape, t, s) ==
    SumSeq(Concat(SubSeq(shape, 1, t - 1))) + SumSeq(SubSeq(shape[t], 1, s - 1))

\* the track structure of a shape whose point of traversal position i has time f[i]
Build(shape, f) ==
    [t \in 1..Len(shape) |->
        [s \in 1..Len(shape[t]) |->
            [j \in 1..shape[t][s] |->
                Point(Offset(shape, t, s) + j, f[Offset(shape, t, s) + j])]]]

Shapes ==
    {sh \in SeqsUpTo(MaxTracks, SeqsUpTo(MaxSegs, 0..MaxSegLen)) : Total(sh) <= MaxPoints}

ExtractTimes == {NoTime, T(0, 100, 0), T(0, 100, 500000), T(1, 0, 0)}

SelectTimes == {T(d, s, u) : d \in 0..MaxDay, s \in {0, 100, 400}, u \in {0, 500000}}

\* the times f[1], ..., f[n] are in order
TimeSorted(f, n) == \A i \in 1..(n - 1) : ~TimeLess(f[i + 1], f[i])

Points(f, n) == [i \in 1..n |-> Point(i, f[i])]

SortedInputs ==
    UNION {{Points(f, n) : f \in {g \in [1..n -> SelectTimes] : TimeSorted(g, n)}} :
              n \in 0..MaxLen}

SampleInputs == {[i \in 1..k |-> Point(i, T(0, (i - 1) * 400, 0))] : k \in 0..MaxSample}

FileShapes == {<<>>, <<<<>>>>, <<<<1>>>>, <<<<2>>>>, <<<<1, 1>>>>, <<<<1>>, <<0, 1>>>>}

FileTimes == {NoTime, T(0, 0, 0), T(0, 400, 0)}

FileInputs ==
    {[status |-> st, tracks |-> <<>>] : st \in {"missing", "denied", "corrupt"}}
    \cup {[status |-> "ok", tracks |-> Build(sh, f)] :
             f \in [1..2 -> FileTimes], sh \in FileShapes}

\* the candidates the geocoding service answers with
CandidateA ==
    Candidate(<<Component({"country", "political"}, "JP"),
                Component({"administrative_area_level_1", "political"}, "Tokyo"),
                Component({"locality", "political"}, "Shibuya")>>)

CandidateB ==
    Candidate(<<Component({"locality"}, "A"),
                Component({"administrative_area_level_3"}, "Z"),
                Component({"sublocality", "locality"}, "B")>>)

Candidates == {CandidateA, CandidateB}

\* the outcomes of gmaps.reverse_geocode: a list of candidates, or an exception
Responses ==
    {[status |-> "ok", results |-> r] : r \in SeqsUpTo(MaxCand, Candidates)}
    \cup {[status |-> "error", results |-> <<>>]}

----------------------------------------------------------------------------
(* main *)

Start(at) ==
    /\ pc = at
    /\ log = <<>>
    /\ idx = 0
    /\ calls = <<>>
    /\ parsed_points = <<>>
    /\ seen_addresses = {}
    /\ reversed_geocode_results = <<>>
    /\ out_file = [state |-> "untouched", text |-> NoText]

Init ==
    /\ Start("load")
    /\ gpx_file \in FileInputs
    /\ gpx_data = <<>>
    /\ interval = point_interval_minutes
    /\ total_points = <<>>
    /\ processing_points = <<>>

\* line 183, after the log line of the stage that raised
MainFailed(l) == Append(l, "main_failed")

\* line 172
Load ==
    /\ pc = "load"
    /\ LET r == load_gpx_file(gpx_file)
       IN  IF r.raised
           THEN /\ log' = MainFailed(log \o r.logs)
                /\ pc' = "done"
                /\ UNCHANGED gpx_data
           ELSE /\ gpx_data' = r.value
                /\ pc' = "extract"
                /\ UNCHANGED log
    /\ UNCHANGED <<gpx_file, total_points, interval, processing_points, idx, calls,
                   parsed_points, seen_addresses, reversed_geocode_results, out_file>>

\* lines 173-174
Extract ==
    /\ pc = "extract"
    /\ LET r == extract_points(gpx_data)
       IN  IF r.raised
           THEN /\ log' = MainFailed(Append(log, "extract_error"))
                /\ pc' = "done"
                /\ UNCHANGED total_points
           ELSE /\ total_points' = r.value
                /\ log' = Append(log, "total_points")
                /\ pc' = "select"
    /\ UNCHANGED <<gpx_file, gpx_data, interval, processing_points, idx, calls,
                   parsed_points, seen_addresses, reversed_geocode_results, out_file>>

\* lines 176-178
Select ==
    /\ pc = "select"
    /\ LET r == select_points(total_points, interval)
       IN  IF r.raised
           THEN /\ log' = MainFailed(Append(log, "select_error"))
                /\ pc' = "done"
                /\ UNCHANGED processing_points
           ELSE /\ processing_points' = r.value
                /\ log' = log \o (IF r.warned THEN <<"select_no_points">> ELSE <<>>)
                              \o <<"selected_points", "processing_points">>
                /\ pc' = "geocode_start"
    /\ UNCHANGED <<gpx_file, gpx_data, total_points, interval, idx, calls,
                   parsed_points, seen_addresses, reversed_geocode_results, out_file>>

\* line 179, into reverseGeocode: lines 107-109
GeocodeStart ==
    /\ pc = "geocode_start"
    /\ log' = Append(log, "geocode_start")
    /\ parsed_points' = <<>>
    /\ seen_addresses' = {}
    /\ idx' = 1
    /\ pc' = "geocode"
    /\ UNCHANGED <<gpx_file, gpx_data, total_points, interval, processing_points,
                   calls, reversed_geocode_results, out_file>>

\* one iteration of the loop of reverseGeocode: one lookup and its handling
Lookup ==
    /\ pc = "geocode"
    /\ idx <= Len(processing_points)
    /\ \E resp \in Responses :
          LET r == GeocodeIter(parsed_points, seen_addresses, resp)
          IN  /\ calls' = Append(calls, [point |-> processing_points[idx].id, resp |-> resp])
              /\ parsed_points' = r.parsed_points
              /\ seen_addresses' = r.seen_addresses
              /\ IF r.raised
                 THEN /\ log' = MainFailed(log \o r.logs)
                      /\ pc' = "done"
                      /\ UNCHANGED idx
                 ELSE /\ log' = log \o r.logs
                      /\ idx' = idx + 1
                      /\ UNCHANGED pc
    /\ UNCHANGED <<gpx_file, gpx_data, total_points, interval, processing_points,
                   reversed_geocode_results, out_file>>

\* line 149, and the assignment of line 179
GeocodeReturn ==
    /\ pc = "geocode"
    /\ idx > Len(processing_points)
    /\ reversed_geocode_results' = GeocodeReturnValue(parsed_points)
    /\ pc' = "save"
    /\ UNCHANGED <<log, gpx_file, gpx_data, total_points, interval, processing_points,
                   idx, calls, parsed_points, seen_addresses, out_file>>

\* lines 180-181
Save ==
    /\ pc = "save"
    /\ \E outcome \in SaveOutcomes :
          LET r == save_reversed_geocode_results_json(
                       ResultToPy(reversed_geocode_results), outcome, out_file)
          IN  /\ out_file' = r.file
              /\ log' = IF r.raised
                        THEN MainFailed(log \o r.logs)
                        ELSE Append(log \o r.logs, "completed")
    /\ pc' = "done"
    /\ UNCHANGED <<gpx_file, gpx_data, total_points, interval, processing_points,
                   idx, calls, parsed_points, seen_addresses, reversed_geocode_results>>

Next == Load \/ Extract \/ Select \/ GeocodeStart \/ Lookup \/ GeocodeReturn \/ Save

Spec == Init /\ [][Next]_vars

\* extract_points on every track structure of the bounds
InitExtract ==
    /\ Start("extract")
    /\ gpx_file = [status |-> "ok", tracks |-> <<>>]
    /\ \E sh \in Shapes : \E f \in [1..Total(sh) -> ExtractTimes] : gpx_data = Build(sh, f)
    /\ interval = point_interval_minutes
    /\ total_points = <<>>
    /\ processing_points = <<>>

SpecExtract == InitExtract /\ [][Extract]_vars

\* select_points on every time-sorted input and interval of the bounds
InitSelect ==
    /\ Start("select")
    /\ gpx_file = [status |-> "ok", tracks |-> <<>>]
    /\ gpx_data = <<>>
    /\ interval \in 1..MaxInterval
    /\ \E n \in 0..MaxLen : \E f \in [1..n -> SelectTimes] :
          /\ TimeSorted(f, n)
          /\ total_points = Points(f, n)
    /\ processing_points = <<>>

SpecSelect == InitSelect /\ [][Select]_vars

\* reverseGeocode and the save on every sample of the bounds
InitGeocode ==
    /\ Start("geocode_start")
    /\ gpx_file = [status |-> "ok", tracks |-> <<>>]
    /\ gpx_data = <<>>
    /\ interval = point_interval_minutes
    /\ total_points \in SampleInputs
    /\ processing_points = total_points

NextGeocode == GeocodeStart \/ Lookup \/ GeocodeReturn \/ Save

SpecGeocode == InitGeocode /\ [][NextGeocode]_vars

----------------------------------------------------------------------------
(* What the claims are stated with *)

InLog(m) == \E i \in 1..Len(log) : log[i] = m

\* the elapsed time a - b is at least n seconds
ElapsedAtLeast(a, b, n) ==
    LET whole == (a.day - b.day) * 86400 + (a.sec - b.sec)
    IN  whole > n \/ (whole = n /\ a.usec >= b.usec)

\* the whole seconds of the elapsed time a - b, for a not before b
ElapsedSeconds(a, b) ==
    LET whole == (a.day - b.day) * 86400 + (a.sec - b.sec)
    IN  IF a.usec >= b.usec THEN whole ELSE whole - 1

\* processing_points as the main scan of select_points leaves it
Scanned ==
    IF total_points = <<>> THEN <<>>
    ELSE ScanState(total_points, interval, Len(total_points)).processing_points

\* the final step of select_points appended the last point
ForcedAppend == Len(processing_points) = Len(Scanned) + 1

\* the points of the track structure, and the number of points of its segments
InputPoints ==
    UNION {UNION {{gpx_data[t][s][j] : j \in 1..Len(gpx_data[t][s])} :
                     s \in 1..Len(gpx_data[t])} :
              t \in 1..Len(gpx_data)}

SegmentCounts ==
    SumSeq([t \in 1..Len(gpx_data) |->
               SumSeq([s \in 1..Len(gpx_data[t]) |-> Len(gpx_data[t][s])])])

\* the address of the first candidate of the k-th lookup
AnsweredCalls == {k \in 1..Len(calls) :
                     calls[k].resp.status = "ok" /\ calls[k].resp.results # <<>>}

CallAddr(k) == ParseComponents(EmptyAddr, calls[k].resp.results[1].address_components)

\* the first lookup that gave the address a
FirstCall(a) == CHOOSE k \in AnsweredCalls :
                    /\ CallAddr(k) = a
                    /\ \A m \in AnsweredCalls : CallAddr(m) = a => k <= m

FailedCalls == {k \in 1..Len(calls) : calls[k].resp.status = "error"}

----------------------------------------------------------------------------
(* The claims *)

\* C1: the list reverseGeocode builds is the first-occurrence deduplication of
\* the addresses of the first candidates of the answered lookups: no two
\* entries agree on all five fields, every entry is such an address and every
\* such address is an entry, the entries are in the order of their first
\* lookup; a lookup without candidates adds nothing and the loop goes on, so
\* that when reverseGeocode returns every sampled point was looked up once,
\* in order.
C1_FirstOccurrenceDedup ==
    pc \in {"geocode", "save", "done"} =>
        /\ \A i, j \in 1..Len(parsed_points) :
              i < j => AddressTuple(parsed_points[i]) # AddressTuple(parsed_points[j])
        /\ {parsed_points[i] : i \in 1..Len(parsed_points)}
               = {CallAddr(k) : k \in AnsweredCalls}
        /\ \A i, j \in 1..Len(parsed_points) :
              i < j => FirstCall(parsed_points[i]) < FirstCall(parsed_points[j])
        /\ (pc = "save" =>
               /\ Len(calls) = Len(processing_points)
               /\ \A k \in 1..Len(calls) : calls[k].point = processing_points[k].id
               /\ reversed_geocode_results[1] = parsed_points)

C1_Witness ==
    /\ pc = "save"
    /\ Len(calls) = 3
    /\ calls[1].resp.results # <<>>
    /\ calls[2].resp.results = <<>>
    /\ calls[3].resp.results # <<>>
    /\ Len(calls[3].resp.results) = 2
    /\ CallAddr(3) = CallAddr(1)
    /\ Len(parsed_points) = 1

\* C2: in the output of select_points, two consecutive points are at least
\* interval*60 seconds apart, except possibly the pair that ends with the
\* forced final point.
C2_MinimumSpacing ==
    pc = "geocode_start" =>
        \A k \in 1..(Len(processing_points) - 1) :
            \/ k + 1 = Len(processing_points) /\ ForcedAppend
            \/ ElapsedAtLeast(processing_points[k + 1].time, processing_points[k].time,
                              interval * 60)

C2_Witness ==
    /\ pc = "geocode_start"
    /\ Len(processing_points) = 3
    /\ ~ForcedAppend
    /\ Len(total_points) = 3
    /\ interval = 5

\* C3: the text written to the output file parses back to the list of the
\* deduplicated address objects.
C3_FileHoldsResultSet ==
    out_file.state = "written" => json_loads(out_file.text) = AddrListToPy(parsed_points)

\* C4: once a lookup has raised, it is the last lookup issued, no point was
\* looked up twice, the run is over, the output file was not touched and
\* neither the save nor the completion was logged.
C4_FailedLookupAborts ==
    FailedCalls # {} =>
        /\ FailedCalls = {Len(calls)}
        /\ \A i, j \in 1..Len(calls) : i < j => calls[i].point # calls[j].point
        /\ pc = "done"
        /\ out_file.state = "untouched"
        /\ ~InLog("save_ok") /\ ~InLog("completed")
        /\ Last(log) = "main_failed"

C4_Witness ==
    /\ FailedCalls # {}
    /\ Len(calls) = 2
    /\ Len(processing_points) = 3
    /\ parsed_points # <<>>
    /\ pc = "done"

\* C5: a failed write is logged inside the save, the run then logs its
\* successful completion, and the failure handler of main is not reached.
C5_WriteFailureSwallowed ==
    InLog("save_error") =>
        /\ pc = "done"
        /\ Last(log) = "completed"
        /\ ~InLog("main_failed")
        /\ out_file.state # "written"

C5_Witness ==
    /\ InLog("save_error")
    /\ out_file.state = "truncated"
    /\ parsed_points # <<>>

\* C6: extract_points returns the stable sort by time of the points of the
\* track structure in traversal order: as many points as the segments hold,
\* each input point once, times non-decreasing, equal times in traversal
\* order; it raises only when two or more points are sorted and one has no
\* time, so an empty structure gives the empty sequence.
C6_ExtractStableSort ==
    /\ pc = "select" =>
          /\ Len(total_points) = SegmentCounts
          /\ {total_points[i] : i \in 1..Len(total_points)} = InputPoints
          /\ Cardinality(InputPoints) = SegmentCounts
          /\ \A i, j \in 1..Len(total_points) :
                i < j =>
                    /\ ~TimeLess(total_points[j].time, total_points[i].time)
                    /\ (total_points[i].time = total_points[j].time
                           => total_points[i].id < total_points[j].id)
    /\ pc = "done" =>
          /\ SegmentCounts >= 2
          /\ \E p \in InputPoints : p.time = NoTime

C6_Witness ==
    /\ pc = "select"
    /\ Len(gpx_data) = 2
    /\ Len(total_points) = 3
    /\ total_points[1].id = 3
    /\ total_points[2].time = total_points[3].time
    /\ total_points[2].id = 1

\* C7: the output of select_points is a subsequence of its input (positions
\* strictly increasing) that starts with the first input point; an empty input
\* gives an empty output, and nothing is raised.
C7_Subsequence ==
    pc # "select" =>
        /\ pc = "geocode_start"
        /\ (total_points = <<>> => processing_points = <<>>)
        /\ (total_points # <<>> =>
               /\ Len(processing_points) >= 1
               /\ processing_points[1] = total_points[1])
        /\ \A k \in 1..Len(processing_points) :
               /\ processing_points[k].id \in 1..Len(total_points)
               /\ total_points[processing_points[k].id] = processing_points[k]
        /\ \A k \in 1..(Len(processing_points) - 1) :
               processing_points[k].id < processing_points[k + 1].id

C7_Witness ==
    /\ pc = "geocode_start"
    /\ Len(total_points) = 3
    /\ Len(processing_points) = 2
    /\ processing_points[2].id = 3

\* C8: at every point i of the main scan the accumulated gap is the elapsed
\* seconds between point i and the last retained point, and point i is
\* retained exactly when that elapsed time is at least interval*60 seconds.
C8_GapIsElapsedTime ==
    pc = "geocode_start" =>
        \A i \in 2..Len(total_points) :
            LET before == ScanState(total_points, interval, i - 1)
                after == ScanState(total_points, interval, i)
                lastRetained == Last(before.processing_points)
                gap == before.time_sec_passed
                           + DiffSeconds(total_points[i].time, total_points[i - 1].time)
            IN  /\ gap = ElapsedSeconds(total_points[i].time, lastRetained.time)
                /\ (Len(after.processing_points) > Len(before.processing_points))
                       <=> ElapsedAtLeast(total_points[i].time, lastRetained.time,
                                          interval * 60)

\* C9 as claimed: some time-sorted input and positive interval (those of the
\* run at hand among them) make the final step append the last point although
\* the main scan already appended it.
C9_DoubleAppendHappens ==
    \E points \in SortedInputs \cup {total_points}, m \in (1..MaxInterval) \cup {interval} :
        /\ points # <<>>
        /\ LET scanned == ScanState(points, m, Len(points)).processing_points
           IN  /\ Last(scanned).id = Last(points).id
               /\ FinalCheck(points, scanned, m)

\* C9 as amended: the final step never appends the last point when the main
\* scan already appended it: it appends only a last point the scan skipped,
\* and no point is twice in the output.
C9_NoDoubleAppend ==
    pc = "geocode_start" =>
        /\ ForcedAppend => Last(Scanned).id # Last(total_points).id
        /\ \A k, l \in 1..Len(processing_points) :
               k < l => processing_points[k].id # processing_points[l].id

C9_Witness ==
    /\ pc = "geocode_start"
    /\ ForcedAppend
    /\ interval = 5
    /\ Len(total_points) = 3

\* C10: every stage that logs an error re-raises it, so that the failure
\* handler of main is reached.
C10_EveryStageReraises ==
    \A m \in {"load_not_found", "load_no_permission", "load_failed", "extract_error",
              "select_error", "geocode_error", "save_error"} :
        InLog(m) => /\ pc = "done"
                    /\ InLog("main_failed")

====
